---- MODULE Spec2Model ----
(***************************************************************************)
(* Decode/execute core of the gameboi CPU (src/src/lib.rs): the register   *)
(* file, the opcode tables, Cpu::decode, the ALU and Cpu::execute.         *)
(***************************************************************************)
EXTENDS Integers, Sequences, FiniteSets, TLC

VARIABLES
  registers,         \* Cpu.registers: [u8; 10], indexed 0..9
  pc,                \* Cpu.pc: u16
  debug_assertions,  \* build configuration: cfg!(debug_assertions)
  status,            \* "running", "panicked" or "undefined" (after undefined behaviour)
  acc,               \* byte held by the caller of the ALU: the operand of the next call
  arg_b,             \* second operand handed to the two-operand ALU functions
  trace,             \* the calls made so far, each with its inputs and its result
  writes             \* number of register writes made through the public API

vars == <<registers, pc, debug_assertions, status, acc, arg_b, trace, writes>>

----------------------------------------------------------------------------
(* Bounds of the exploration *)

\* nibble values within NibbleEdge of a multiple of 8 are used to build operands
NibbleEdge == 2

\* number of chained ALU calls
MaxCalls == 2

\* number of write_reg calls before a decode/execute
MaxWrites == 1

Nibbles == { n \in 0..15 : n % 8 < NibbleEdge \/ n % 8 >= 8 - NibbleEdge }

Bytes == { 16 * h + l : h \in Nibbles, l \in Nibbles } \cup {1, 18, 42}

FlagBytes == { 0, 16, 192, 240 }

----------------------------------------------------------------------------
(* u8 / u16 arithmetic *)

RECURSIVE BitAnd(_, _)
BitAnd(a, b) ==
  IF a = 0 \/ b = 0 THEN 0
  ELSE (a % 2) * (b % 2) + 2 * BitAnd(a \div 2, b \div 2)

RECURSIVE BitOr(_, _)
BitOr(a, b) ==
  IF a = 0 THEN b
  ELSE IF b = 0 THEN a
  ELSE (IF a % 2 = 1 \/ b % 2 = 1 THEN 1 ELSE 0) + 2 * BitOr(a \div 2, b \div 2)

RECURSIVE BitXor(_, _)
BitXor(a, b) ==
  IF a = 0 THEN b
  ELSE IF b = 0 THEN a
  ELSE ((a + b) % 2) + 2 * BitXor(a \div 2, b \div 2)

\* !x on a u8
BitNot8(a) == 255 - a

\* x << n on a u8 with n < 8: the bits shifted past bit 7 are lost
Shl8(a, n) == (a * (2 ^ n)) % 256

\* x >> n on a u8 with n < 8
Shr8(a, n) == a \div (2 ^ n)

\* u8::rotate_left(n) / u8::rotate_right(n), n taken modulo 8
rotate_left(a, n) == BitOr(Shl8(a, n % 8), Shr8(a, (8 - (n % 8)) % 8))

rotate_right(a, n) == BitOr(Shr8(a, n % 8), Shl8(a, (8 - (n % 8)) % 8))

\* u16::from_le_bytes([b0, b1])
from_le_bytes(b0, b1) == b0 + 256 * b1

\* u16::to_le_bytes(v)
to_le_bytes(v) == << v % 256, v \div 256 >>

----------------------------------------------------------------------------
(* enum Reg, enum RegAddr *)

Reg_Invalid == 0
Reg_A == 1
Reg_F == 2
Reg_B == 3
Reg_C == 4
Reg_D == 5
Reg_E == 6
Reg_H == 7
Reg_L == 8
Reg_SP == 9

RegAddr_HL == 10
RegAddr_HLPlus == 11
RegAddr_HLMinus == 12
RegAddr_BC == 13
RegAddr_DE == 14

FLAG_Z == 128
FLAG_N == 64
FLAG_H == 32
FLAG_C == 16

----------------------------------------------------------------------------
(* Opcode tables; entry i of the source is element i + 1 here *)

INST_KIND_TABLE ==
  <<
      0,  40,   4,   0,   0,   0,   3,   0,   0,  10,   5,   0,   0,   0,   3,   0,
      0,  40,   4,   0,   0,   0,   3,   0,  48,  10,   5,   0,   0,   0,   3,   0,
     49,  40,   4,   0,   0,   0,   3,   0,  49,  10,   5,   0,   0,   0,   3,   0,
     49,  40,   4,   0,   0,   0,   3,   0,  49,  10,   5,   0,   0,   0,   3,   0,
      2,   2,   2,   2,   2,   2,   5,   2,   2,   2,   2,   2,   2,   2,   5,   2,
      2,   2,   2,   2,   2,   2,   5,   2,   2,   2,   2,   2,   2,   2,   5,   2,
      2,   2,   2,   2,   2,   2,   5,   2,   2,   2,   2,   2,   2,   2,   5,   2,
      4,   4,   4,   4,   4,   4,   1,   4,   2,   2,   2,   2,   2,   2,   5,   2,
      7,   7,   7,   7,   7,   7,   9,   7,  12,  12,  12,  12,  12,  12,  14,  12,
     15,  15,  15,  15,  15,  15,  17,  15,  18,  18,  18,  18,  18,  18,  18,  18,
     21,  21,  21,  21,  21,  21,  23,  21,  24,  24,  24,  24,  24,  24,  24,  24,
     27,  27,  27,  27,  27,  27,  27,  28,   0,   0,   0,   0,   0,   0,   0,   0,
      0,  43,   0,  46,  45,  42,   9,   0,   0,   0,   0,  46,   0,   0,  13,   0,
      0,  43,   0,  46,   0,  42,  16,   0,   0,   0,   0,  46,   0,   0,  19,   0,
      0,  43,   0,   0,   0,  42,  22,   0,  11,   0,  47,   0,   0,   0,  25,   0,
      0,  43,   0,   0,   0,  42,  28,   0,   0,   0,  10,   0,   0,   0,   0,   0
  >>

SRC_TABLE ==
  <<
      0,   0,   1,   3,   3,   3,   0,   0,   9,   3,  13,   3,   4,   3,   0,   0,
      0,   0,   1,   5,   5,   5,   0,   0,   0,   5,  14,   5,   6,   5,   0,   0,
    192,   0,   1,   7,   7,   7,   0,   0, 128,   7,  11,   7,   8,   8,   0,   0,
     80,   0,   1,   9,  10,  10,   0,   0,  16,   9,  12,   9,   1,   1,   0,   0,
      3,   3,   4,   6,   7,   8,  10,   1,   3,   4,   5,   6,   7,   8,  10,   1,
      3,   4,   5,   6,   7,   8,  10,   1,   3,   4,   5,   6,   7,   8,  10,   1,
      3,   4,   5,   6,   7,   8,  10,   1,   3,   4,   5,   6,   7,   8,  10,   1,
      3,   4,   5,   6,   7,   8,   0,   1,   3,   4,   5,   6,   7,   8,  10,   1,
      3,   4,   5,   6,   7,   8,  10,   1,   3,   4,   5,   6,   7,   8,  10,   1,
      3,   4,   5,   6,   7,   8,  10,   1,   3,   4,   5,   6,   7,   8,  10,   1,
      3,   4,   5,   6,   7,   8,  10,   1,   3,   4,   5,   6,   7,   8,  10,   1,
      3,   4,   5,   6,   7,   8,  10,   1,   3,   4,   5,   6,   7,   8,  10,   1,
    192,   3, 192,   0,   0,   3,   0,   0, 128,   0, 128,   0, 128,   0,   0,   0,
     80,   5,  80,   0,   0,   5,   0,   0,  16,   0,  16,   0,  16,   0,   0,   0,
      0,   7,   0,   0,   0,   7,   0,   0,   0,   0,   0,   0,   0,   0,   0,   0,
      0,   1,   0,   1,   0,   1,   0,   0,   0,   0,   7,   0,   0,   0,   0,   0
  >>

DST_TABLE ==
  <<
      0,   3,  12,   0,   0,   0,   3,   0,   0,   7,   1,   0,   0,   4,   0,   0,
      0,   5,  13,   0,   0,   0,   5,   0,   0,   7,   1,   0,   0,   6,   0,   0,
      0,   7,  10,   0,   0,   0,   7,   0,   0,   7,   1,   0,   0,   8,   0,   0,
      0,   9,  11,   0,   0,   0,   9,   0,   0,   7,   1,   0,   0,   1,   0,   0,
      3,   3,   3,   3,   3,   3,   3,   3,   4,   4,   4,   4,   4,   4,   4,   4,
      5,   5,   5,   5,   5,   5,   5,   5,   6,   6,   6,   6,   6,   6,   6,   6,
      7,   7,   7,   7,   7,   7,   7,   7,   8,   8,   8,   8,   8,   8,   8,   8,
     10,  10,  10,  10,  10,  10,   0,  10,   1,   1,   1,   1,   1,   1,   1,   1,
      1,   1,   1,   1,   1,   1,   1,   1,   1,   1,   1,   1,   1,   1,   1,   1,
      0,   0,   0,   0,   0,   0,   0,   0,   1,   1,   1,   1,   1,   1,   1,   1,
      0,   0,   0,   0,   0,   0,   0,   0,   0,   0,   0,   0,   0,   0,   0,   0,
      0,   0,   0,   0,   0,   0,   1,   0,   0,   0,   0,   0,   0,   0,   1,   0,
      0,   0,   0,   0,   0,   0,   0,   0,   0,   0,   0,   0,   0,   0,   1,   0,
      0,   0,   0,   0,   0,   0,   0,   0,   0,   0,   0,   0,   0,   0,   0,   0,
      0,   0,   0,   0,   0,   0,   0,   0,   0,   0,   0,   0,   0,   0,   0,   0,
      0,   0,   0,   0,   0,   0,   0,   0,   0,   7,   9,   0,   0,   0,   0,   0
  >>

PREFIX_TABLE ==
  <<
     55,  55,  55,  55,  55,  55,  56,  55,  57,  57,  57,  57,  57,  57,  58,  57,
     59,  59,  59,  59,  59,  59,  60,  59,  61,  61,  61,  61,  61,  61,  62,  61,
     63,  63,  63,  63,  63,  63,  64,  63,  65,  65,  65,  65,  65,  65,  66,  65,
     67,  67,  67,  67,  67,  67,  68,  67,  69,  69,  69,  69,  69,  69,  70,  69,
     71,  71,  71,  71,  71,  71,  71,  71,  73,  73,  73,  73,  73,  73,  73,  73,
     75,  75,  75,  75,  75,  75,  75,  75,  77,  77,  77,  77,  77,  77,  77,  77,
     79,  79,  79,  79,  79,  79,  79,  79,  81,  81,  81,  81,  81,  81,  81,  81,
     83,  83,  83,  83,  83,  83,  83,  83,  85,  85,  85,  85,  85,  85,  85,  85,
     87,  87,  87,  87,  87,  87,  87,  87,  89,  89,  89,  89,  89,  89,  89,  89,
     91,  91,  91,  91,  91,  91,  91,  91,  93,  93,  93,  93,  93,  93,  93,  93,
     95,  95,  95,  95,  95,  95,  95,  95,  97,  97,  97,  97,  97,  97,  97,  97,
      0,   0,   0,   0,   0,   0,   1,   0,   0,   0,   0,   0,   0,   0,   1,   0,
      0,   0,   0,   0,   0,   0,   0,   0,   0,   0,   0,   0,   0,   0,   1,   0,
      0,   0,   0,   0,   0,   0,   0,   0,   0,   0,   0,   0,   0,   0,   0,   0,
      0,   0,   0,   0,   0,   0,   0,   0,   0,   0,   0,   0,   0,   0,   0,   0,
      0,   0,   0,   0,   0,   0,   0,   0,   0,   7,   9,   0,   0,   0,   0,   0
  >>

PREFIX_DST_TABLE ==
  <<
      3,   4,   5,   6,   7,   8,  10,   1,   3,   4,   5,   6,   7,   8,  10,   1,
      3,   4,   5,   6,   7,   8,  10,   1,   3,   4,   5,   6,   7,   8,  10,   1,
      3,   4,   5,   6,   7,   8,  10,   1,   3,   4,   5,   6,   7,   8,  10,   1,
      3,   4,   5,   6,   7,   8,  10,   1,   3,   4,   5,   6,   7,   8,  10,   1,
      3,   4,   5,   6,   7,   8,  10,   1,   3,   4,   5,   6,   7,   8,  10,   1,
      3,   4,   5,   6,   7,   8,  10,   1,   3,   4,   5,   6,   7,   8,  10,   1,
      3,   4,   5,   6,   7,   8,  10,   1,   3,   4,   5,   6,   7,   8,  10,   1,
      3,   4,   5,   6,   7,   8,  10,   1,   3,   4,   5,   6,   7,   8,  10,   1,
      3,   4,   5,   6,   7,   8,  10,   1,   3,   4,   5,   6,   7,   8,  10,   1,
      3,   4,   5,   6,   7,   8,  10,   1,   3,   4,   5,   6,   7,   8,  10,   1,
      3,   4,   5,   6,   7,   8,  10,   1,   3,   4,   5,   6,   7,   8,  10,   1,
      3,   4,   5,   6,   7,   8,  10,   1,   3,   4,   5,   6,   7,   8,  10,   1,
      3,   4,   5,   6,   7,   8,  10,   1,   3,   4,   5,   6,   7,   8,  10,   1,
      3,   4,   5,   6,   7,   8,  10,   1,   3,   4,   5,   6,   7,   8,  10,   1,
      3,   4,   5,   6,   7,   8,  10,   1,   3,   4,   5,   6,   7,   8,  10,   1,
      3,   4,   5,   6,   7,   8,  10,   1,   3,   4,   5,   6,   7,   8,  10,   1
  >>

----------------------------------------------------------------------------
(* Register file *)

\* how write_reg / read_reg stop on a register byte, "none" when they return.
\* They panic on Reg::Invalid: by the explicit check in a debug build, by the
\* index 0usize - 1 otherwise. A byte above 9 is no variant of enum Reg, and a
\* Reg holding it is undefined behaviour: the build may keep or drop the
\* bounds check of the index
reg_fault(reg) ==
  IF reg > 9 THEN "ub" ELSE IF reg = Reg_Invalid THEN "panic" ELSE "none"

\* Cpu::write_reg on a register it returns for
write_reg(regs, reg, value) == [regs EXCEPT ![reg - 1] = value]

\* Cpu::read_reg on a register it returns for
read_reg(regs, reg) == regs[reg - 1]

\* how read_widereg / write_widereg stop on a register byte, "none" when
\* they return. They panic on the registers of the matches! list in a debug
\* build and on Reg::Invalid, through the slice bounds, otherwise. A byte above
\* 9 is no variant of enum Reg, and a Reg holding it is undefined behaviour
widereg_fault(reg, dbg) ==
  IF reg > 9 THEN "ub"
  ELSE IF dbg /\ reg \in {Reg_Invalid, Reg_A, Reg_C, Reg_E, Reg_F, Reg_L} THEN "panic"
  ELSE IF reg = Reg_Invalid THEN "panic"
  ELSE "none"

\* Cpu::read_widereg on a register it returns for
read_widereg(regs, reg) == from_le_bytes(regs[reg - 1], regs[reg])

\* write_widereg storing the high byte first
write_widereg_high_first(regs, reg, value) ==
  LET l == to_le_bytes(value)[1]
      h == to_le_bytes(value)[2]
  IN  [regs EXCEPT ![reg - 1] = h, ![reg] = l]

\* Cpu::write_widereg on a register it returns for
write_widereg(regs, reg, value) ==
  LET l == to_le_bytes(value)[1]
      h == to_le_bytes(value)[2]
  IN  [regs EXCEPT ![reg - 1] = l, ![reg] = h]

----------------------------------------------------------------------------
(* ALU: each function returns its result and the register file with F written *)

Flag(cond, flag) == IF cond THEN flag ELSE 0

\* alu_add with the carry taken one too late: a sum of exactly 256 sets no carry
alu_add_late_carry(regs, a, b) ==
  LET res == (a + b) % 256
      carry == a + b > 256
      half_carry == Shr8(res, 4) # 0
      zero == res = 0
      flags == Flag(carry, FLAG_C) + Flag(half_carry, FLAG_H) + Flag(zero, FLAG_Z)
  IN  [res |-> res, registers |-> write_reg(regs, Reg_F, flags)]

alu_add(regs, a, b) ==
  LET res == (a + b) % 256
      carry == a + b > 255
      half_carry == Shr8(res, 4) # 0
      zero == res = 0
      flags == Flag(carry, FLAG_C) + Flag(half_carry, FLAG_H) + Flag(zero, FLAG_Z)
  IN  [res |-> res, registers |-> write_reg(regs, Reg_F, flags)]

alu_wideadd(regs, a, b) ==
  LET res == (a + b) % 65536
      carry == a + b > 65535
      half_carry == res \div 4096 # 0
      zero == res = 0
      flags == Flag(carry, FLAG_C) + Flag(half_carry, FLAG_H) + Flag(zero, FLAG_Z)
  IN  [res |-> res, registers |-> write_reg(regs, Reg_F, flags)]

alu_adc(regs, a, b) ==
  LET res0 == (a + b) % 256
      carry0 == a + b > 255
      half_carry == Shr8(res0, 4) # 0
      zero == res0 = 0
      cin == BitAnd(read_reg(regs, Reg_F), FLAG_C) # 0
      res == IF cin THEN (res0 + 1) % 256 ELSE res0
      carry == IF cin THEN carry0 \/ res0 + 1 > 255 ELSE carry0
      flags == Flag(carry, FLAG_C) + Flag(half_carry, FLAG_H) + Flag(zero, FLAG_Z)
  IN  [res |-> res, registers |-> write_reg(regs, Reg_F, flags)]

alu_sub(regs, a, b) ==
  LET res == (a - b) % 256
      carry == a < b
      half_carry == Shr8(b, 4) # 0
      zero == res = 0
      flags == FLAG_N + Flag(~carry, FLAG_C) + Flag(~half_carry, FLAG_H)
                 + Flag(zero, FLAG_Z)
  IN  [res |-> res, registers |-> write_reg(regs, Reg_F, flags)]

alu_sbc(regs, a, b) ==
  LET res0 == (a - b) % 256
      carry0 == a < b
      half_carry == Shr8(b, 4) # 0
      zero == res0 = 0
      cin == BitAnd(read_reg(regs, Reg_F), FLAG_C) # 0
      res == IF cin THEN (res0 + 1) % 256 ELSE res0
      carry == IF cin THEN carry0 \/ res0 + 1 > 255 ELSE carry0
      flags == FLAG_N + Flag(~carry, FLAG_C) + Flag(~half_carry, FLAG_H)
                 + Flag(zero, FLAG_Z)
  IN  [res |-> res, registers |-> write_reg(regs, Reg_F, flags)]

alu_and(regs, a, b) ==
  LET res == BitAnd(a, b)
      flags == FLAG_H + Flag(res = 0, FLAG_Z)
  IN  [res |-> res, registers |-> write_reg(regs, Reg_F, flags)]

alu_or(regs, a, b) ==
  LET res == BitOr(a, b)
      flags == Flag(res = 0, FLAG_Z)
  IN  [res |-> res, registers |-> write_reg(regs, Reg_F, flags)]

\* alu_rlc shifting instead of rotating: bit 7 does not come back as bit 0
alu_rlc_shift(regs, a) ==
  LET res == Shl8(a, 1)
      carry == Shr8(a, 7) = 1
      flags == Flag(carry, FLAG_C) + Flag(res = 0, FLAG_Z)
  IN  [res |-> res, registers |-> write_reg(regs, Reg_F, flags)]

alu_rlc(regs, a) ==
  LET res == rotate_left(a, 1)
      carry == Shr8(a, 7) = 1
      flags == Flag(carry, FLAG_C) + Flag(res = 0, FLAG_Z)
  IN  [res |-> res, registers |-> write_reg(regs, Reg_F, flags)]

alu_rrc(regs, a) ==
  LET res == rotate_right(a, 1)
      carry == BitAnd(a, 254) = 1
      flags == Flag(carry, FLAG_C) + Flag(res = 0, FLAG_Z)
  IN  [res |-> res, registers |-> write_reg(regs, Reg_F, flags)]

alu_rl(regs, a) ==
  LET cin == IF BitAnd(read_reg(regs, Reg_F), FLAG_C) # 0 THEN 1 ELSE 0
      res == rotate_left(a, cin)
      carry == Shr8(a, 7) = 1
      flags == Flag(carry, FLAG_C) + Flag(res = 0, FLAG_Z)
  IN  [res |-> res, registers |-> write_reg(regs, Reg_F, flags)]

alu_rr(regs, a) ==
  LET cin == IF BitAnd(read_reg(regs, Reg_F), FLAG_C) # 0 THEN 1 ELSE 0
      res == rotate_right(a, cin)
      carry == BitAnd(a, 254) = 1
      flags == Flag(carry, FLAG_C) + Flag(res = 0, FLAG_Z)
  IN  [res |-> res, registers |-> write_reg(regs, Reg_F, flags)]

\* u8::overflowing_shl(1) / overflowing_shr(1): the flag reports a shift
\* amount of 8 or more, so it is false for a shift by 1
alu_sla(regs, a) ==
  LET res == Shl8(a, 1)
      carry == FALSE
      flags == Flag(carry, FLAG_C) + Flag(res = 0, FLAG_Z)
  IN  [res |-> res, registers |-> write_reg(regs, Reg_F, flags)]

alu_sra(regs, a) ==
  LET res == BitOr(Shr8(a, 1), BitAnd(a, 128))
      carry == FALSE
      flags == Flag(carry, FLAG_C) + Flag(res = 0, FLAG_Z)
  IN  [res |-> res, registers |-> write_reg(regs, Reg_F, flags)]

alu_swap(regs, a) ==
  LET hnimble == Shr8(a, 4)
      lnimble == BitAnd(a, 240)
      res == BitOr(Shl8(lnimble, 4), hnimble)
      flags == Flag(res = 0, FLAG_Z)
  IN  [res |-> res, registers |-> write_reg(regs, Reg_F, flags)]

alu_srl(regs, a) ==
  LET res == Shr8(a, 1)
      carry == FALSE
      flags == Flag(carry, FLAG_C) + Flag(res = 0, FLAG_Z)
  IN  [res |-> res, registers |-> write_reg(regs, Reg_F, flags)]

\* 1 << bit on a u8 overflows for bit >= 8: a panic in a debug build, the
\* shift amount masked to 3 bits otherwise
bit_shift_panics(bit, dbg) == dbg /\ bit > 7

alu_bit(regs, a, bit) ==
  LET is_zero == BitAnd(a, Shl8(1, bit % 8)) = 0
      old_carry == read_reg(regs, Reg_F)
      flags == BitOr(BitOr(old_carry, FLAG_H), Flag(is_zero, FLAG_Z))
  IN  write_reg(regs, Reg_F, flags)

alu_res(a, bit) == BitAnd(a, BitNot8(Shl8(1, bit % 8)))

alu_set(a, bit) == BitOr(a, Shl8(1, bit % 8))

----------------------------------------------------------------------------
(* enum InstrKind, Option, and the conversions from u8 *)

InstrKind ==
  [ Nop |-> 0, Halt |-> 1, LdRegReg |-> 2, LdRegImm |-> 3, LdRegMem |-> 4,
    LdMemReg |-> 5, LdMemHLImm |-> 6, AddRegReg |-> 7, AddRegImm |-> 8,
    AddMemReg |-> 9, AddWRegWReg |-> 10, AddWRegImm |-> 11, AdcRegReg |-> 12,
    AdcRegImm |-> 13, AdcMemReg |-> 14, SubReg |-> 15, SubImm |-> 16,
    SubMem |-> 17, SbcReg |-> 18, SbcImm |-> 19, SbcMem |-> 20, AndReg |-> 21,
    AndImm |-> 22, AndMem |-> 23, XorReg |-> 24, XorImm |-> 25, XorMem |-> 26,
    OrReg |-> 27, OrImm |-> 28, OrMem |-> 29, IncReg |-> 30, IncWReg |-> 31,
    IncMem |-> 32, DecReg |-> 33, DecWReg |-> 34, DecMem |-> 35, CpReg |-> 36,
    CpImm |-> 37, CpMem |-> 38, LdWRegImm |-> 40, LdMemImmReg |-> 41,
    Push |-> 42, Pop |-> 43, AddSPImm |-> 44, JPImm |-> 45, JPCond |-> 46,
    JPReg |-> 47, JRelImm |-> 48, JRelCond |-> 49, Rst |-> 50, RlcA |-> 51,
    RlA |-> 52, RrcA |-> 53, RrA |-> 54, RlcReg |-> 55, RlcMem |-> 56,
    RrcReg |-> 57, RrcMem |-> 58, RlReg |-> 59, RlMem |-> 60, RrReg |-> 61,
    RrMem |-> 62, SlaReg |-> 63, SlaMem |-> 64, SraReg |-> 65, SraMem |-> 66,
    SwapReg |-> 67, SwapMem |-> 68, SrlReg |-> 69, SrlMem |-> 70,
    BitReg |-> 71, BitMem |-> 72, ResReg |-> 73, ResMem |-> 74, SetReg |-> 75,
    SetMem |-> 76, Ret |-> 77, RetCond |-> 78, Reti |-> 79 ]

None == [tag |-> "None"]

Some(v) == [tag |-> "Some", val |-> v]

\* What a from_u8 conversion does besides converting: "none", "panic" (a
\* failed debug_assert!) or "ub" (transmute to a value that is no variant)
Reg_from_u8(value, dbg) ==
  IF value <= 9 THEN "none" ELSE IF dbg THEN "panic" ELSE "ub"

RegAddr_from_u8(value, dbg) ==
  IF value = 0 \/ (value >= 10 /\ value <= 14) THEN "none"
  ELSE IF dbg /\ value # 15 THEN "panic"
  ELSE "ub"

InstrKind_from_u8(value, dbg) ==
  IF dbg /\ value > 10 THEN "panic"
  ELSE IF value = 39 \/ value > 79 THEN "ub"
  ELSE "none"

----------------------------------------------------------------------------
(* Cpu::decode *)

\* Results of decode: the program counter where it stopped, how it stopped
\* ("return", "panic", "ub") and the value returned
Returned(p, instr) == [pc |-> p, outcome |-> "return", ret |-> Some(instr)]

ReturnedNone(p) == [pc |-> p, outcome |-> "return", ret |-> None]

Stopped(p, how) == [pc |-> p, outcome |-> how, ret |-> None]

\* instructions[self.pc as usize] followed by self.pc += 1
fetch(p, instructions, dbg) ==
  IF p >= Len(instructions) THEN [outcome |-> "panic", pc |-> p, byte |-> 0]
  ELSE IF p = 65535 /\ dbg THEN [outcome |-> "panic", pc |-> p, byte |-> 0]
  ELSE [outcome |-> "return", pc |-> (p + 1) % 65536, byte |-> instructions[p + 1]]

\* first of the faults f1, f2 that is not "none"
FirstFault(f1, f2) == IF f1 # "none" THEN f1 ELSE f2

decode_reg(loc, variant, opcode, p, dbg) ==
  LET r == SRC_TABLE[opcode + 1]
  IN  IF r = 0 THEN Stopped(p, "panic")
      ELSE IF Reg_from_u8(r, dbg) # "none" THEN Stopped(p, Reg_from_u8(r, dbg))
      ELSE Returned(p, [kind |-> variant] @@ (loc :> r))

\* f is the fetch of the immediate byte
decode_imm(loc, variant, f) ==
  IF f.outcome # "return" THEN Stopped(f.pc, f.outcome)
  ELSE Returned(f.pc, [kind |-> variant] @@ (loc :> f.byte))

decode_mem(loc, variant, opcode, p, dbg) ==
  LET r == SRC_TABLE[opcode + 1]
  IN  IF r = 0 THEN Stopped(p, "panic")
      ELSE IF RegAddr_from_u8(r, dbg) # "none"
        THEN Stopped(p, RegAddr_from_u8(r, dbg))
      ELSE Returned(p, [kind |-> variant] @@ (loc :> r))

decode_reg_reg(variant, opcode, p, dbg) ==
  LET src == SRC_TABLE[opcode + 1]
      dst == DST_TABLE[opcode + 1]
      fault == FirstFault(Reg_from_u8(src, dbg), Reg_from_u8(dst, dbg))
  IN  IF src = 0 \/ dst = 0 THEN Stopped(p, "panic")
      ELSE IF fault # "none" THEN Stopped(p, fault)
      ELSE Returned(p, [kind |-> variant, src |-> src, dst |-> dst])

\* f is the fetch of the immediate byte
decode_reg_imm(variant, opcode, f, dbg) ==
  LET dst == DST_TABLE[opcode + 1]
  IN  IF f.outcome # "return" THEN Stopped(f.pc, f.outcome)
      ELSE IF dst = 0 THEN Stopped(f.pc, "panic")
      ELSE IF Reg_from_u8(dst, dbg) # "none"
        THEN Stopped(f.pc, Reg_from_u8(dst, dbg))
      ELSE Returned(f.pc, [kind |-> variant, src |-> f.byte, dst |-> dst])

decode_reg_mem(variant, opcode, p, dbg) ==
  LET src == SRC_TABLE[opcode + 1]
      dst == DST_TABLE[opcode + 1]
      fault == FirstFault(Reg_from_u8(src, dbg), RegAddr_from_u8(dst, dbg))
  IN  IF src = 0 \/ dst = 0 THEN Stopped(p, "panic")
      ELSE IF fault # "none" THEN Stopped(p, fault)
      ELSE Returned(p, [kind |-> variant, src |-> src, dst |-> dst])

decode_mem_reg(variant, opcode, p, dbg) ==
  LET src == SRC_TABLE[opcode + 1]
      dst == DST_TABLE[opcode + 1]
      fault == FirstFault(RegAddr_from_u8(src, dbg), Reg_from_u8(dst, dbg))
  IN  IF src = 0 \/ dst = 0 THEN Stopped(p, "panic")
      ELSE IF fault # "none" THEN Stopped(p, fault)
      ELSE Returned(p, [kind |-> variant, src |-> src, dst |-> dst])

prefix_decode_reg(loc, variant, opcode, p, dbg) ==
  LET r == PREFIX_DST_TABLE[opcode + 1]
  IN  IF r = 0 THEN Stopped(p, "panic")
      ELSE IF Reg_from_u8(r, dbg) # "none" THEN Stopped(p, Reg_from_u8(r, dbg))
      ELSE Returned(p, [kind |-> variant] @@ (loc :> r))

prefix_decode_mem(loc, variant, opcode, p, dbg) ==
  LET r == PREFIX_DST_TABLE[opcode + 1]
  IN  IF r = 0 THEN Stopped(p, "panic")
      ELSE IF RegAddr_from_u8(r, dbg) # "none"
        THEN Stopped(p, RegAddr_from_u8(r, dbg))
      ELSE Returned(p, [kind |-> variant] @@ (loc :> r))

\* f is the fetch of the immediate byte
prefix_decode_reg_imm(reg_loc, imm_loc, variant, opcode, f, dbg) ==
  LET dst == PREFIX_DST_TABLE[opcode + 1]
  IN  IF f.outcome # "return" THEN Stopped(f.pc, f.outcome)
      ELSE IF dst = 0 THEN Stopped(f.pc, "panic")
      ELSE IF Reg_from_u8(dst, dbg) # "none"
        THEN Stopped(f.pc, Reg_from_u8(dst, dbg))
      ELSE Returned(f.pc, [kind |-> variant] @@ (imm_loc :> f.byte) @@ (reg_loc :> dst))

\* f is the fetch of the immediate byte
prefix_decode_mem_imm(mem_loc, imm_loc, variant, opcode, f, dbg) ==
  LET dst == PREFIX_DST_TABLE[opcode + 1]
  IN  IF f.outcome # "return" THEN Stopped(f.pc, f.outcome)
      ELSE IF dst = 0 THEN Stopped(f.pc, "panic")
      ELSE IF RegAddr_from_u8(dst, dbg) # "none"
        THEN Stopped(f.pc, RegAddr_from_u8(dst, dbg))
      ELSE Returned(f.pc, [kind |-> variant] @@ (imm_loc :> f.byte) @@ (mem_loc :> dst))

\* the two immediate bytes of a 16-bit operand and u16::from_le_bytes of them
\* fh and fl are the fetches of the first and the second byte
decode_imm16(fh, fl) ==
  IF fh.outcome # "return" THEN [outcome |-> fh.outcome, pc |-> fh.pc, imm |-> 0]
  ELSE IF fl.outcome # "return" THEN [outcome |-> fl.outcome, pc |-> fl.pc, imm |-> 0]
  ELSE [outcome |-> "return", pc |-> fl.pc, imm |-> from_le_bytes(fh.byte, fl.byte)]

\* an arm that reads a 16-bit immediate w and then an operand r from a table,
\* as a register when is_reg, as a condition mask otherwise
decode_wide(instr, r, is_reg, w, dbg) ==
  IF w.outcome # "return" THEN Stopped(w.pc, w.outcome)
  ELSE IF r = 0 THEN Stopped(w.pc, "panic")
  ELSE IF is_reg /\ Reg_from_u8(r, dbg) # "none" THEN Stopped(w.pc, Reg_from_u8(r, dbg))
  ELSE Returned(w.pc, instr)

\* the match on the base kind table (lines 615-726)
\* f is the fetch of the byte after the opcode, w the 16-bit immediate there
decode_common(opcode, p, f, w, dbg) ==
  LET kind == INST_KIND_TABLE[opcode + 1]
      K == InstrKind
      src == SRC_TABLE[opcode + 1]
      dst == DST_TABLE[opcode + 1]
  IN  CASE kind = K.Halt -> Returned(p, [kind |-> "Halt"])
        [] kind = K.LdRegReg -> decode_reg_reg("LdRegReg", opcode, p, dbg)
        [] kind = K.LdRegImm -> decode_reg_imm("LdRegImm", opcode, f, dbg)
        [] kind = K.LdRegMem -> decode_reg_mem("LdRegMem", opcode, p, dbg)
        [] kind = K.LdMemReg -> decode_mem_reg("LdMemReg", opcode, p, dbg)
        [] kind = K.AddRegReg -> decode_reg_reg("AddRegReg", opcode, p, dbg)
        [] kind = K.AddRegImm -> decode_reg_imm("AddRegImm", opcode, f, dbg)
        [] kind = K.AddMemReg -> decode_mem_reg("AddMemReg", opcode, p, dbg)
        [] kind = K.AddWRegWReg -> decode_reg_reg("AddWRegWReg", opcode, p, dbg)
        [] kind = K.AdcRegReg -> decode_reg_reg("AdcRegReg", opcode, p, dbg)
        [] kind = K.AdcRegImm -> decode_reg_imm("AdcRegImm", opcode, f, dbg)
        [] kind = K.AdcMemReg -> decode_mem_reg("AdcMemReg", opcode, p, dbg)
        [] kind = K.SubReg -> decode_reg("src", "SubReg", opcode, p, dbg)
        [] kind = K.SubImm -> decode_imm("src", "SubImm", f)
        [] kind = K.SubMem -> decode_mem("src", "SubMem", opcode, p, dbg)
        [] kind = K.SbcReg -> decode_reg("src", "SbcReg", opcode, p, dbg)
        [] kind = K.SbcImm -> decode_imm("src", "SbcImm", f)
        [] kind = K.SbcMem -> decode_mem("src", "SbcMem", opcode, p, dbg)
        [] kind = K.AndReg -> decode_reg("src", "AndReg", opcode, p, dbg)
        [] kind = K.AndImm -> decode_imm("src", "AndImm", f)
        [] kind = K.AndMem -> decode_mem("src", "AndMem", opcode, p, dbg)
        [] kind = K.OrReg -> decode_reg("src", "OrReg", opcode, p, dbg)
        [] kind = K.OrImm -> decode_imm("src", "OrImm", f)
        [] kind = K.OrMem -> decode_mem("src", "OrMem", opcode, p, dbg)
        [] kind = K.IncReg -> decode_reg("dst", "IncReg", opcode, p, dbg)
        [] kind = K.IncWReg -> decode_reg("dst", "IncWReg", opcode, p, dbg)
        [] kind = K.IncMem -> decode_mem("dst", "IncMem", opcode, p, dbg)
        [] kind = K.DecReg -> decode_reg("dst", "DecReg", opcode, p, dbg)
        [] kind = K.DecWReg -> decode_reg("dst", "DecWReg", opcode, p, dbg)
        [] kind = K.DecMem -> decode_mem("dst", "DecMem", opcode, p, dbg)
        [] kind = K.CpReg -> decode_reg("src", "CpReg", opcode, p, dbg)
        [] kind = K.CpImm -> decode_imm("src", "CpImm", f)
        [] kind = K.CpMem -> decode_mem("src", "CpMem", opcode, p, dbg)
        [] kind = K.LdWRegImm ->
             decode_wide([kind |-> "LdWRegImm", src |-> w.imm, dst |-> dst],
                         dst, TRUE, w, dbg)
        [] kind = K.LdMemImmReg ->
             decode_wide([kind |-> "LdMemImmReg", src |-> src, dst |-> w.imm],
                         src, TRUE, w, dbg)
        [] kind = K.Push -> decode_reg("src", "Push", opcode, p, dbg)
        [] kind = K.Pop -> decode_reg("dst", "Pop", opcode, p, dbg)
        [] kind = K.JPImm ->
             IF w.outcome # "return" THEN Stopped(w.pc, w.outcome)
             ELSE Returned(w.pc, [kind |-> "JPImm", addr |-> w.imm])
        [] kind = K.JPCond ->
             decode_wide([kind |-> "JPCond", cond |-> src, addr |-> w.imm],
                         src, FALSE, w, dbg)
        [] kind = K.JPReg -> decode_reg("src", "JPReg", opcode, p, dbg)
        [] kind = K.JRelImm -> decode_imm("offset", "JRelImm", f)
        [] kind = K.JRelCond ->
             IF f.outcome # "return" THEN Stopped(f.pc, f.outcome)
             ELSE IF src = 0 THEN Stopped(f.pc, "panic")
             ELSE Returned(f.pc, [kind |-> "JRelCond", cond |-> src, offset |-> f.byte])
        [] OTHER -> ReturnedNone(p)

\* the match on the extended kind table (lines 730-750)
\* f is the fetch of the byte after the opcode
decode_prefixed(opcode, p, f, dbg) ==
  LET kind == PREFIX_TABLE[opcode + 1]
      K == InstrKind
  IN  IF InstrKind_from_u8(kind, dbg) # "none"
        THEN Stopped(p, InstrKind_from_u8(kind, dbg))
      ELSE
      CASE kind = K.RlcReg -> prefix_decode_reg("reg", "RlcReg", opcode, p, dbg)
        [] kind = K.RlcMem -> prefix_decode_mem("reg", "RlcMem", opcode, p, dbg)
        [] kind = K.RrcReg -> prefix_decode_reg("reg", "RrcReg", opcode, p, dbg)
        [] kind = K.RrcMem -> prefix_decode_mem("reg", "RrcMem", opcode, p, dbg)
        [] kind = K.RlReg -> prefix_decode_reg("reg", "RlReg", opcode, p, dbg)
        [] kind = K.RlMem -> prefix_decode_mem("reg", "RlMem", opcode, p, dbg)
        [] kind = K.RrReg -> prefix_decode_reg("reg", "RrReg", opcode, p, dbg)
        [] kind = K.RrMem -> prefix_decode_mem("reg", "RrMem", opcode, p, dbg)
        [] kind = K.SlaReg -> prefix_decode_reg("reg", "SlaReg", opcode, p, dbg)
        [] kind = K.SlaMem -> prefix_decode_mem("reg", "SlaMem", opcode, p, dbg)
        [] kind = K.SraReg -> prefix_decode_reg("reg", "SraReg", opcode, p, dbg)
        [] kind = K.SraMem -> prefix_decode_mem("reg", "SraMem", opcode, p, dbg)
        [] kind = K.BitReg ->
             prefix_decode_reg_imm("reg", "bit", "BitReg", opcode, f, dbg)
        [] kind = K.BitMem ->
             prefix_decode_mem_imm("reg", "bit", "BitMem", opcode, f, dbg)
        [] kind = K.ResReg ->
             prefix_decode_reg_imm("reg", "bit", "ResReg", opcode, f, dbg)
        [] kind = K.ResMem ->
             prefix_decode_mem_imm("reg", "bit", "ResMem", opcode, f, dbg)
        [] kind = K.SetReg ->
             prefix_decode_reg_imm("reg", "bit", "SetReg", opcode, f, dbg)
        [] kind = K.SetMem ->
             prefix_decode_mem_imm("reg", "bit", "SetMem", opcode, f, dbg)
        [] OTHER -> ReturnedNone(p)

\* the end of decode (lines 729-755): res is the result of the base match;
\* the extended match runs when it is None on opcode 0xCB, and every other
\* result ends in unreachable!()
decode_finish(opcode, res, prefixed) ==
  IF res.outcome # "return" THEN res
  ELSE IF res.ret = None /\ opcode = 203 THEN prefixed
  ELSE Stopped(res.pc, "panic")

\* decode once the opcode byte is fetched (f0); f1 and f2 are the fetches of
\* the two bytes after it
decode_opcode(f0, f1, f2, dbg) ==
  IF f0.outcome # "return" THEN Stopped(f0.pc, f0.outcome)
  ELSE IF InstrKind_from_u8(INST_KIND_TABLE[f0.byte + 1], dbg) # "none"
    THEN Stopped(f0.pc, InstrKind_from_u8(INST_KIND_TABLE[f0.byte + 1], dbg))
  ELSE decode_finish(f0.byte,
                     decode_common(f0.byte, f0.pc, f1, decode_imm16(f1, f2), dbg),
                     decode_prefixed(f0.byte, f0.pc, f1, dbg))

\* Cpu::decode
decode(p, instructions, dbg) ==
  LET f0 == fetch(p, instructions, dbg)
      f1 == fetch(f0.pc, instructions, dbg)
      f2 == fetch(f1.pc, instructions, dbg)
  IN  decode_opcode(f0, f1, f2, dbg)

----------------------------------------------------------------------------
(* Cpu::execute *)

\* Results of the match of execute: the register file and program counter it
\* leaves, and how it stopped ("return" for Some(()), "panic")
Done(regs, p) == [registers |-> regs, pc |-> p, outcome |-> "return"]

Todo(regs, p) == [registers |-> regs, pc |-> p, outcome |-> "panic"]

\* the match stopped by a register access that did not return
Faulted(regs, p, how) == [registers |-> regs, pc |-> p, outcome |-> how]

\* the fault of the register accesses of an arm: undefined behaviour if any
\* access has it, else a panic if any access panics
RegFaults(faults) ==
  IF "ub" \in faults THEN "ub" ELSE IF "panic" \in faults THEN "panic" ELSE "none"

\* an arm that reads 8-bit registers rs, computes through alu (which returns
\* res and the register file) and writes the result to register dst
AluToReg(regs, p, rs, alu, dst) ==
  IF RegFaults({reg_fault(r) : r \in rs}) # "none"
    THEN Faulted(regs, p, RegFaults({reg_fault(r) : r \in rs}))
  ELSE Done(write_reg(alu.registers, dst, alu.res), p)

\* self.pc = (self.pc as i16 + offset as i16).try_into().expect(..)
rel_jump(regs, p, offset) ==
  LET pc16 == IF p > 32767 THEN p - 65536 ELSE p
      sum == pc16 + offset
  IN  IF sum > 32767 \/ sum < 0 THEN Todo(regs, p) ELSE Done(regs, sum)

\* the match of execute on a decoded instruction (lines 1181-1445)
execute_instr(regs, p, instr, dbg) ==
  LET k == instr.kind
      A == read_reg(regs, Reg_A)
  IN  CASE k = "Nop" -> Done(regs, p)
        [] k = "LdRegReg" ->
             IF RegFaults({reg_fault(instr.src), reg_fault(instr.dst)}) # "none"
               THEN Faulted(regs, p, RegFaults({reg_fault(instr.src),
                                                reg_fault(instr.dst)}))
             ELSE Done(write_reg(regs, instr.dst, read_reg(regs, instr.src)), p)
        [] k = "LdRegImm" ->
             IF reg_fault(instr.dst) # "none" THEN Faulted(regs, p, reg_fault(instr.dst))
             ELSE Done(write_reg(regs, instr.dst, instr.src), p)
        [] k = "AddRegReg" ->
             AluToReg(regs, p, {instr.src, instr.dst},
                      alu_add(regs, read_reg(regs, instr.src), read_reg(regs, instr.dst)),
                      instr.dst)
        [] k = "AddRegImm" ->
             AluToReg(regs, p, {instr.dst},
                      alu_add(regs, instr.src, read_reg(regs, instr.dst)), instr.dst)
        [] k = "AddWRegWReg" ->
             IF RegFaults({widereg_fault(instr.src, dbg),
                           widereg_fault(instr.dst, dbg)}) # "none"
               THEN Faulted(regs, p, RegFaults({widereg_fault(instr.src, dbg),
                                                widereg_fault(instr.dst, dbg)}))
             ELSE LET r == alu_wideadd(regs, read_widereg(regs, instr.src),
                                       read_widereg(regs, instr.dst))
                  IN  Done(write_widereg(r.registers, instr.dst, r.res), p)
        [] k = "AddWRegImm" ->
             IF widereg_fault(instr.dst, dbg) # "none"
               THEN Faulted(regs, p, widereg_fault(instr.dst, dbg))
             ELSE LET r == alu_wideadd(regs, instr.src, read_widereg(regs, instr.dst))
                  IN  Done(write_widereg(r.registers, instr.dst, r.res), p)
        [] k = "AdcRegReg" ->
             AluToReg(regs, p, {instr.src, instr.dst},
                      alu_adc(regs, read_reg(regs, instr.src), read_reg(regs, instr.dst)),
                      instr.dst)
        [] k = "AdcRegImm" ->
             AluToReg(regs, p, {instr.dst},
                      alu_adc(regs, instr.src, read_reg(regs, instr.dst)), instr.dst)
        [] k = "SubReg" ->
             AluToReg(regs, p, {instr.src},
                      alu_sub(regs, A, read_reg(regs, instr.src)), Reg_A)
        [] k = "SubImm" -> AluToReg(regs, p, {}, alu_sub(regs, A, instr.src), Reg_A)
        [] k = "SbcReg" ->
             AluToReg(regs, p, {instr.src},
                      alu_sbc(regs, A, read_reg(regs, instr.src)), Reg_A)
        [] k = "SbcImm" -> AluToReg(regs, p, {}, alu_sbc(regs, A, instr.src), Reg_A)
        [] k = "AndReg" ->
             AluToReg(regs, p, {instr.src},
                      alu_and(regs, A, read_reg(regs, instr.src)), Reg_A)
        [] k = "AndImm" -> AluToReg(regs, p, {}, alu_and(regs, A, instr.src), Reg_A)
        [] k = "OrReg" ->
             AluToReg(regs, p, {instr.src},
                      alu_or(regs, A, read_reg(regs, instr.src)), Reg_A)
        [] k = "OrImm" -> AluToReg(regs, p, {}, alu_or(regs, A, instr.src), Reg_A)
        [] k = "IncReg" ->
             IF reg_fault(instr.dst) # "none" THEN Faulted(regs, p, reg_fault(instr.dst))
             ELSE LET r == alu_add(regs, read_reg(regs, instr.dst), 1)
                      regs1 == write_reg(r.registers, instr.dst, r.res)
                      flags == BitXor(read_reg(regs1, Reg_F), FLAG_C)
                  IN  Done(write_reg(regs1, Reg_F, flags), p)
        [] k = "IncWReg" ->
             IF widereg_fault(instr.dst, dbg) # "none"
               THEN Faulted(regs, p, widereg_fault(instr.dst, dbg))
             ELSE LET r == alu_wideadd(regs, read_widereg(regs, instr.dst), 1)
                      regs1 == write_widereg(r.registers, instr.dst, r.res)
                      flags == BitXor(read_reg(regs1, Reg_F), FLAG_C)
                  IN  Done(write_reg(regs1, Reg_F, flags), p)
        [] k = "DecReg" ->
             IF reg_fault(instr.dst) # "none" THEN Faulted(regs, p, reg_fault(instr.dst))
             ELSE LET r == alu_sub(regs, read_reg(regs, instr.dst), 1)
                      regs1 == write_reg(r.registers, instr.dst, r.res)
                      flags == BitXor(read_reg(regs1, Reg_F), FLAG_C)
                  IN  Done(write_reg(regs1, Reg_F, flags), p)
        [] k = "DecWReg" ->
             IF widereg_fault(instr.dst, dbg) # "none"
               THEN Faulted(regs, p, widereg_fault(instr.dst, dbg))
             ELSE LET v == read_widereg(regs, instr.dst)
                      res == IF v = 0 THEN 0 ELSE v - 1
                  IN  Done(write_widereg(regs, instr.dst, res), p)
        [] k = "CpReg" ->
             IF reg_fault(instr.src) # "none" THEN Faulted(regs, p, reg_fault(instr.src))
             ELSE Done(alu_sub(regs, A, read_reg(regs, instr.src)).registers, p)
        [] k = "CpImm" -> Done(alu_sub(regs, A, instr.src).registers, p)
        [] k = "LdWRegImm" ->
             IF widereg_fault(instr.dst, dbg) # "none"
               THEN Faulted(regs, p, widereg_fault(instr.dst, dbg))
             ELSE Done(write_widereg(regs, instr.dst, instr.src), p)
        [] k = "JPImm" -> Done(regs, instr.addr)
        [] k = "JPCond" ->
             IF BitAnd(read_reg(regs, Reg_F), instr.cond) # instr.cond
               THEN Done(regs, p)
             ELSE Done(regs, instr.addr)
        [] k = "JRelImm" -> rel_jump(regs, p, instr.offset)
        [] k = "JRelCond" ->
             IF BitAnd(read_reg(regs, Reg_F), instr.cond) # instr.cond
               THEN Done(regs, p)
             ELSE rel_jump(regs, p, instr.offset)
        [] k = "RlcReg" ->
             AluToReg(regs, p, {instr.reg}, alu_rlc(regs, read_reg(regs, instr.reg)),
                      instr.reg)
        [] k = "RrcReg" ->
             AluToReg(regs, p, {instr.reg}, alu_rrc(regs, read_reg(regs, instr.reg)),
                      instr.reg)
        [] k = "RlReg" ->
             AluToReg(regs, p, {instr.reg}, alu_rl(regs, read_reg(regs, instr.reg)),
                      instr.reg)
        [] k = "RrReg" ->
             AluToReg(regs, p, {instr.reg}, alu_rr(regs, read_reg(regs, instr.reg)),
                      instr.reg)
        [] k = "SlaReg" ->
             AluToReg(regs, p, {instr.reg}, alu_sla(regs, read_reg(regs, instr.reg)),
                      instr.reg)
        [] k = "SraReg" ->
             AluToReg(regs, p, {instr.reg}, alu_sra(regs, read_reg(regs, instr.reg)),
                      instr.reg)
        [] k = "SwapReg" ->
             AluToReg(regs, p, {instr.reg}, alu_swap(regs, read_reg(regs, instr.reg)),
                      instr.reg)
        [] k = "SrlReg" ->
             AluToReg(regs, p, {instr.reg}, alu_srl(regs, read_reg(regs, instr.reg)),
                      instr.reg)
        [] k = "BitReg" ->
             IF reg_fault(instr.reg) # "none"
               THEN Faulted(regs, p, reg_fault(instr.reg))
             ELSE IF bit_shift_panics(instr.bit, dbg) THEN Todo(regs, p)
             ELSE Done(alu_bit(regs, read_reg(regs, instr.reg), instr.bit), p)
        [] k \in {"ResReg", "SetReg"} ->
             IF reg_fault(instr.reg) # "none"
               THEN Faulted(regs, p, reg_fault(instr.reg))
             ELSE IF bit_shift_panics(instr.bit, dbg) THEN Todo(regs, p)
             ELSE Done(regs, p)
        [] OTHER -> Todo(regs, p)

\* what execute returns after its match stopped as e
execute_result(e) ==
  [registers |-> e.registers, pc |-> e.pc, outcome |-> e.outcome,
   ret |-> IF e.outcome = "return" THEN Some("unit") ELSE None]

\* execute once decode stopped as d: `?` on its result, then the match
execute_decoded(regs, d, dbg) ==
  IF d.outcome # "return"
    THEN [registers |-> regs, pc |-> d.pc, outcome |-> d.outcome, ret |-> None]
  ELSE IF d.ret = None
    THEN [registers |-> regs, pc |-> d.pc, outcome |-> "return", ret |-> None]
  ELSE execute_result(execute_instr(regs, d.pc, d.ret.val, dbg))

\* Cpu::execute
execute(regs, p, instructions, dbg) ==
  execute_decoded(regs, decode(p, instructions, dbg), dbg)

----------------------------------------------------------------------------
(* State machine *)

\* a register file with every bit set
NewRegisters_all_ones == [i \in 0..9 |-> 255]

\* Cpu::new()
NewRegisters == [i \in 0..9 |-> 0]

\* values written to registers through write_reg
RegVals == {FLAG_C, FLAG_N + FLAG_Z, 255}

\* instruction streams handed to decode and execute: every opcode followed by
\* two immediate bytes, the stream of tests::it_works, and truncated streams
Programs ==
  { <<op, 42, 1>> : op \in 0..255 }
    \cup { <<64, 80, 70>>, <<32, 5>>, <<32, 251>>, <<40, 5>>, <<6>>, <<1, 42>>,
           <<24, 5>>, <<24, 251>> }

\* the state after Cpu::new(), in either build
Init ==
  /\ registers = NewRegisters
  /\ pc = 0
  /\ debug_assertions \in BOOLEAN
  /\ status = "running"
  /\ acc = 0
  /\ arg_b = 0
  /\ trace = <<>>
  /\ writes = 0

\* a Cpu whose flag register holds any flag byte, and the operands of the
\* two-operand ALU functions
InitAlu ==
  /\ \E f \in FlagBytes : registers = write_reg(NewRegisters, Reg_F, f)
  /\ pc = 0
  /\ debug_assertions = FALSE
  /\ status = "running"
  /\ acc \in Bytes
  /\ arg_b \in Bytes
  /\ trace = <<>>
  /\ writes = 0

\* values written to register pairs through write_widereg
WideVals == {298, 65408}

\* register files write_reg can leave: the one of Cpu::new() and one with a
\* different byte in every slot
RegFiles == {NewRegisters, [i \in 0..9 |-> 17 * (i + 1)]}

\* a Cpu with one of these register files, in either build
InitReg ==
  /\ registers \in RegFiles
  /\ pc = 0
  /\ debug_assertions \in BOOLEAN
  /\ status = "running"
  /\ acc = 0
  /\ arg_b = 0
  /\ trace = <<>>
  /\ writes = 0

\* bit numbers handed to alu_bit: the bits of a byte and one past them
Bits == 0..8

\* a Cpu whose flag register holds any flag byte, in either build, and the
\* byte tested by alu_bit
InitBit ==
  /\ \E f \in FlagBytes : registers = write_reg(NewRegisters, Reg_F, f)
  /\ pc = 0
  /\ debug_assertions \in BOOLEAN
  /\ status = "running"
  /\ acc \in Bytes
  /\ arg_b = 0
  /\ trace = <<>>
  /\ writes = 0

\* a Cpu whose flag register holds any flag byte, and the operand of the
\* single-operand ALU functions
InitRot ==
  /\ \E f \in FlagBytes : registers = write_reg(NewRegisters, Reg_F, f)
  /\ pc = 0
  /\ debug_assertions = FALSE
  /\ status = "running"
  /\ acc \in 0..255
  /\ arg_b = 0
  /\ trace = <<>>
  /\ writes = 0

\* the record of one call of an ALU function on (acc, arg_b) returning r
AluCall(name, r) ==
  [op |-> name, a |-> acc, b |-> arg_b, flags |-> read_reg(registers, Reg_F),
   res |-> r.res]

\* two-operand functions, called once on (acc, arg_b)
AluAdd ==
  /\ status = "running"
  /\ trace = <<>>
  /\ registers' = alu_add(registers, acc, arg_b).registers
  /\ trace' = Append(trace, AluCall("alu_add", alu_add(registers, acc, arg_b)))
  /\ UNCHANGED <<pc, debug_assertions, status, acc, arg_b, writes>>

AluAdc ==
  /\ status = "running"
  /\ trace = <<>>
  /\ registers' = alu_adc(registers, acc, arg_b).registers
  /\ trace' = Append(trace, AluCall("alu_adc", alu_adc(registers, acc, arg_b)))
  /\ UNCHANGED <<pc, debug_assertions, status, acc, arg_b, writes>>

AluSub ==
  /\ status = "running"
  /\ trace = <<>>
  /\ registers' = alu_sub(registers, acc, arg_b).registers
  /\ trace' = Append(trace, AluCall("alu_sub", alu_sub(registers, acc, arg_b)))
  /\ UNCHANGED <<pc, debug_assertions, status, acc, arg_b, writes>>

AluSbc ==
  /\ status = "running"
  /\ trace = <<>>
  /\ registers' = alu_sbc(registers, acc, arg_b).registers
  /\ trace' = Append(trace, AluCall("alu_sbc", alu_sbc(registers, acc, arg_b)))
  /\ UNCHANGED <<pc, debug_assertions, status, acc, arg_b, writes>>

\* alu_wideadd, called once on the 16-bit values whose little-endian bytes
\* are (arg_b, acc) and (acc, arg_b)
AluWideAdd ==
  /\ status = "running"
  /\ trace = <<>>
  /\ \E r \in {alu_wideadd(registers, from_le_bytes(arg_b, acc),
                            from_le_bytes(acc, arg_b))} :
       /\ registers' = r.registers
       /\ trace' = Append(trace, [op |-> "alu_wideadd",
                                  a |-> from_le_bytes(arg_b, acc),
                                  b |-> from_le_bytes(acc, arg_b),
                                  flags |-> read_reg(registers, Reg_F),
                                  res |-> r.res])
  /\ UNCHANGED <<pc, debug_assertions, status, acc, arg_b, writes>>

\* single-operand functions, each applied to the result of the previous call
AluRlc ==
  /\ status = "running"
  /\ Len(trace) < MaxCalls
  /\ registers' = alu_rlc(registers, acc).registers
  /\ acc' = alu_rlc(registers, acc).res
  /\ trace' = Append(trace, AluCall("alu_rlc", alu_rlc(registers, acc)))
  /\ UNCHANGED <<pc, debug_assertions, status, arg_b, writes>>

AluRrc ==
  /\ status = "running"
  /\ Len(trace) < MaxCalls
  /\ registers' = alu_rrc(registers, acc).registers
  /\ acc' = alu_rrc(registers, acc).res
  /\ trace' = Append(trace, AluCall("alu_rrc", alu_rrc(registers, acc)))
  /\ UNCHANGED <<pc, debug_assertions, status, arg_b, writes>>

AluRl ==
  /\ status = "running"
  /\ Len(trace) < MaxCalls
  /\ registers' = alu_rl(registers, acc).registers
  /\ acc' = alu_rl(registers, acc).res
  /\ trace' = Append(trace, AluCall("alu_rl", alu_rl(registers, acc)))
  /\ UNCHANGED <<pc, debug_assertions, status, arg_b, writes>>

AluRr ==
  /\ status = "running"
  /\ Len(trace) < MaxCalls
  /\ registers' = alu_rr(registers, acc).registers
  /\ acc' = alu_rr(registers, acc).res
  /\ trace' = Append(trace, AluCall("alu_rr", alu_rr(registers, acc)))
  /\ UNCHANGED <<pc, debug_assertions, status, arg_b, writes>>

AluSla ==
  /\ status = "running"
  /\ Len(trace) < MaxCalls
  /\ registers' = alu_sla(registers, acc).registers
  /\ acc' = alu_sla(registers, acc).res
  /\ trace' = Append(trace, AluCall("alu_sla", alu_sla(registers, acc)))
  /\ UNCHANGED <<pc, debug_assertions, status, arg_b, writes>>

AluSra ==
  /\ status = "running"
  /\ Len(trace) < MaxCalls
  /\ registers' = alu_sra(registers, acc).registers
  /\ acc' = alu_sra(registers, acc).res
  /\ trace' = Append(trace, AluCall("alu_sra", alu_sra(registers, acc)))
  /\ UNCHANGED <<pc, debug_assertions, status, arg_b, writes>>

AluSrl ==
  /\ status = "running"
  /\ Len(trace) < MaxCalls
  /\ registers' = alu_srl(registers, acc).registers
  /\ acc' = alu_srl(registers, acc).res
  /\ trace' = Append(trace, AluCall("alu_srl", alu_srl(registers, acc)))
  /\ UNCHANGED <<pc, debug_assertions, status, arg_b, writes>>

AluSwap ==
  /\ status = "running"
  /\ Len(trace) < MaxCalls
  /\ registers' = alu_swap(registers, acc).registers
  /\ acc' = alu_swap(registers, acc).res
  /\ trace' = Append(trace, AluCall("alu_swap", alu_swap(registers, acc)))
  /\ UNCHANGED <<pc, debug_assertions, status, arg_b, writes>>

\* alu_bit on acc and a bit number; acc plays the tested register
AluBit ==
  /\ status = "running"
  /\ Len(trace) < MaxCalls
  /\ \E bit \in Bits :
       IF bit_shift_panics(bit, debug_assertions)
         THEN /\ status' = "panicked"
              /\ UNCHANGED registers
              /\ trace' = Append(trace, [op |-> "alu_bit", a |-> acc, b |-> bit,
                                         flags |-> read_reg(registers, Reg_F),
                                         outcome |-> "panic"])
         ELSE /\ registers' = alu_bit(registers, acc, bit)
              /\ UNCHANGED status
              /\ trace' = Append(trace, [op |-> "alu_bit", a |-> acc, b |-> bit,
                                         flags |-> read_reg(registers, Reg_F),
                                         outcome |-> "return"])
  /\ UNCHANGED <<pc, debug_assertions, acc, arg_b, writes>>

\* how a call that stopped with `outcome` leaves the process ("none": no
\* fault, the call returned); undefined behaviour leaves it panicked or in a
\* state nothing is known about
After(outcome) ==
  CASE outcome \in {"return", "none"} -> {"running"}
    [] outcome = "panic" -> {"panicked"}
    [] OTHER -> {"panicked", "undefined"}

\* the bytes handed to Reg::from_u8 by a caller: the variants of enum Reg and
\* one byte past them
RegBytes == 0..10

\* Cpu::write_reg(Reg::from_u8(reg), value) from outside
WriteReg ==
  /\ status = "running"
  /\ trace = <<>>
  /\ writes < MaxWrites
  /\ \E reg \in RegBytes, value \in RegVals :
       \E fault \in {FirstFault(Reg_from_u8(reg, debug_assertions), reg_fault(reg))} :
         /\ status' \in After(fault)
         /\ registers' = IF fault = "none" THEN write_reg(registers, reg, value)
                         ELSE registers
  /\ writes' = writes + 1
  /\ UNCHANGED <<pc, debug_assertions, acc, arg_b, trace>>

\* Cpu::write_widereg(Reg::from_u8(reg), value) from outside
WriteWideReg ==
  /\ status = "running"
  /\ Len(trace) < MaxCalls
  /\ \E reg \in RegBytes, value \in WideVals :
       \E fault \in {FirstFault(Reg_from_u8(reg, debug_assertions),
                                widereg_fault(reg, debug_assertions))} :
         /\ status' \in After(fault)
         /\ registers' = IF fault = "none" THEN write_widereg(registers, reg, value)
                         ELSE registers
         /\ trace' = Append(trace, [op |-> "write_widereg", reg |-> reg,
                                    value |-> value, registers |-> registers,
                                    outcome |-> IF fault = "none" THEN "return"
                                                ELSE fault])
  /\ UNCHANGED <<pc, debug_assertions, acc, arg_b, writes>>

\* Cpu::read_widereg(Reg::from_u8(reg)) from outside
ReadWideReg ==
  /\ status = "running"
  /\ Len(trace) < MaxCalls
  /\ \E reg \in RegBytes :
       \E fault \in {FirstFault(Reg_from_u8(reg, debug_assertions),
                                widereg_fault(reg, debug_assertions))} :
         /\ status' \in After(fault)
         /\ trace' = Append(trace,
                IF fault = "none"
                  THEN [op |-> "read_widereg", reg |-> reg, registers |-> registers,
                        outcome |-> "return", ret |-> read_widereg(registers, reg)]
                  ELSE [op |-> "read_widereg", reg |-> reg, registers |-> registers,
                        outcome |-> fault])
  /\ UNCHANGED <<registers, pc, debug_assertions, acc, arg_b, writes>>

\* the state after a call op(instructions) that stopped as r
Called(op, instructions, r, regs) ==
  /\ pc' = r.pc
  /\ registers' = regs
  /\ status' \in After(r.outcome)
  /\ trace' = Append(trace, [op |-> op, instructions |-> instructions,
                             pc |-> pc, registers |-> registers,
                             outcome |-> r.outcome, ret |-> r.ret])

\* Cpu::decode(instructions)
Decode ==
  /\ status = "running"
  /\ Len(trace) < MaxCalls
  /\ \E instructions \in Programs :
       Called("decode", instructions, decode(pc, instructions, debug_assertions),
              registers)
  /\ UNCHANGED <<debug_assertions, acc, arg_b, writes>>

\* Cpu::execute(instructions)
Execute ==
  /\ status = "running"
  /\ Len(trace) < MaxCalls
  /\ \E instructions \in Programs :
       \E e \in {execute(registers, pc, instructions, debug_assertions)} :
         Called("execute", instructions, e, e.registers)
  /\ UNCHANGED <<debug_assertions, acc, arg_b, writes>>

Next == WriteReg \/ Decode \/ Execute

Spec == Init /\ [][Next]_vars

NextAlu == AluAdd \/ AluAdc \/ AluSub \/ AluSbc \/ AluWideAdd

SpecAlu == InitAlu /\ [][NextAlu]_vars

NextRot ==
  AluRlc \/ AluRrc \/ AluRl \/ AluRr \/ AluSla \/ AluSra \/ AluSrl \/ AluSwap

SpecRot == InitRot /\ [][NextRot]_vars

NextReg == WriteWideReg \/ ReadWideReg

SpecReg == InitReg /\ [][NextReg]_vars

NextBit == AluBit

SpecBit == InitBit /\ [][NextBit]_vars

\* the last call made
Last == trace[Len(trace)]


\* signed reading of an offset byte
Signed8(o) == IF o < 128 THEN o ELSE o - 256

----------------------------------------------------------------------------
(* Properties *)

\* C1: alu_add returns (a+b) mod 256 and leaves C set iff a+b >= 256 and Z set
\* iff the result is 0
C1_AddResultCarryZero ==
  trace # <<>> /\ Last.op = "alu_add" =>
    /\ Last.res = (Last.a + Last.b) % 256
    /\ (BitAnd(read_reg(registers, Reg_F), FLAG_C) # 0) <=> (Last.a + Last.b >= 256)
    /\ (BitAnd(read_reg(registers, Reg_F), FLAG_Z) # 0) <=> (Last.res = 0)

\* an add that wraps to zero: carry and zero both set
C1_Witness ==
  /\ trace # <<>>
  /\ Last.op = "alu_add"
  /\ Last.a = 128
  /\ Last.b = 128
  /\ Last.res = 0
  /\ BitAnd(read_reg(registers, Reg_F), FLAG_Z + FLAG_C) = FLAG_Z + FLAG_C

\* C2: alu_rlc applied to the result of alu_rrc gives back the operand of
\* alu_rrc, and alu_rrc applied to the result of alu_rlc gives back the operand
\* of alu_rlc, whatever the flag byte before and between the calls
C2_RotateCircularInverse ==
  \A i \in 1..(Len(trace) - 1) :
    /\ trace[i].op = "alu_rrc" /\ trace[i + 1].op = "alu_rlc"
         => trace[i + 1].a = trace[i].res /\ trace[i + 1].res = trace[i].a
    /\ trace[i].op = "alu_rlc" /\ trace[i + 1].op = "alu_rrc"
         => trace[i + 1].a = trace[i].res /\ trace[i + 1].res = trace[i].a

\* 0x81 rotated right to 0xC0 and back, from a flag byte with C set
C2_Witness ==
  /\ Len(trace) = 2
  /\ trace[1].op = "alu_rrc"
  /\ trace[2].op = "alu_rlc"
  /\ trace[1].flags = FLAG_C
  /\ trace[1].a = 129
  /\ trace[1].res = 192
  /\ trace[2].res = 129

\* C3: alu_swap returns the byte with the two nibbles of its operand
\* exchanged, so that two swaps in a row give back the operand
C3_SwapInvolution ==
  \A i \in 1..Len(trace) :
    trace[i].op = "alu_swap" =>
      /\ trace[i].res = 16 * (trace[i].a % 16) + (trace[i].a \div 16)
      /\ i > 1 /\ trace[i - 1].op = "alu_swap" => trace[i].res = trace[i - 1].a

\* the byte the last decode or execute call found at the program counter
LastOpcode == Last.instructions[Last.pc + 1]

\* the last call was op on a stream with a byte at the program counter
LastWas(op) ==
  /\ trace # <<>>
  /\ Last.op = op
  /\ Last.pc < Len(Last.instructions)

\* the 8-bit registers and SP are as they were before the last call
RegistersKept == registers = Last.registers

\* C4: decode at a byte 0x40 returns the load from B into B and advances the
\* program counter by 1; executing it returns with every register unchanged
C4_DecodeExecuteLdBB ==
  /\ LastWas("decode") /\ LastOpcode = 64 =>
       /\ Last.outcome = "return"
       /\ Last.ret = Some([kind |-> "LdRegReg", src |-> Reg_B, dst |-> Reg_B])
       /\ pc = Last.pc + 1
  /\ LastWas("execute") /\ LastOpcode = 64 =>
       /\ Last.outcome = "return"
       /\ Last.ret # None
       /\ RegistersKept

\* the operand order of the single-byte loads
LoadOperand == <<Reg_B, Reg_C, Reg_D, Reg_E, Reg_H, Reg_L, RegAddr_HL, Reg_A>>

\* the load an opcode of 0x40..0x7F stands for: destination from bits 5..3,
\* source from bits 2..0, index 6 being the memory operand at HL
LoadOf(op) ==
  LET d == (op \div 8) % 8
      s == op % 8
  IN  [kind |-> IF s = 6 THEN "LdMemReg" ELSE IF d = 6 THEN "LdRegMem" ELSE "LdRegReg",
       src |-> LoadOperand[s + 1], dst |-> LoadOperand[d + 1]]

\* C5: decode at an opcode of 0x40..0x7F other than 0x76 returns the load with
\* the destination of bits 5..3 and the source of bits 2..0, and decodes of a
\* stream of such opcodes return them in stream order
C5_DecodeLoads ==
  LastWas("decode") /\ LastOpcode \in (64..127) \ {118} =>
    /\ Last.outcome = "return"
    /\ Last.ret = Some(LoadOf(LastOpcode))
    /\ pc = Last.pc + 1

\* C6: decode at 0x06, n returns the load of n into B and advances the program
\* counter by 2; executing it leaves B = n and every other register unchanged
C6_DecodeExecuteLdBImm ==
  /\ LastWas("decode") /\ LastOpcode = 6 /\ Last.pc + 1 < Len(Last.instructions) =>
       /\ Last.outcome = "return"
       /\ Last.ret = Some([kind |-> "LdRegImm", src |-> Last.instructions[Last.pc + 2],
                           dst |-> Reg_B])
       /\ pc = Last.pc + 2
  /\ LastWas("execute") /\ LastOpcode = 6 /\ Last.pc + 1 < Len(Last.instructions) =>
       /\ Last.outcome = "return"
       /\ registers = write_reg(Last.registers, Reg_B, Last.instructions[Last.pc + 2])

\* C7: 0x3C decodes to the increment of A, and executing it from A = 0xFF ends
\* with A = 0, Z and H set and C as it was
C7_IncAFromFF ==
  /\ LastWas("decode") /\ LastOpcode = 60 =>
       /\ Last.outcome = "return"
       /\ Last.ret = Some([kind |-> "IncReg", dst |-> Reg_A])
  /\ LastWas("execute") /\ LastOpcode = 60 /\ read_reg(Last.registers, Reg_A) = 255 =>
       /\ Last.outcome = "return"
       /\ read_reg(registers, Reg_A) = 0
       /\ BitAnd(read_reg(registers, Reg_F), FLAG_Z) # 0
       /\ BitAnd(read_reg(registers, Reg_F), FLAG_H) # 0
       /\ BitAnd(read_reg(registers, Reg_F), FLAG_C)
            = BitAnd(read_reg(Last.registers, Reg_F), FLAG_C)

\* C8: a step on a conditional jump sets the program counter to the jump
\* target iff the flag byte has every bit of the condition mask; otherwise the
\* program counter is the start of the instruction plus its length (2 for the
\* relative form, 3 for the absolute form); no register changes
C8_ConditionalJump ==
  LastWas("execute")
    /\ INST_KIND_TABLE[LastOpcode + 1] \in {InstrKind.JPCond, InstrKind.JRelCond}
    /\ Last.pc + (IF INST_KIND_TABLE[LastOpcode + 1] = InstrKind.JPCond THEN 2 ELSE 1)
         < Len(Last.instructions)
  =>
    LET relative == INST_KIND_TABLE[LastOpcode + 1] = InstrKind.JRelCond
        cond == SRC_TABLE[LastOpcode + 1]
        taken == BitAnd(read_reg(Last.registers, Reg_F), cond) = cond
        length == IF relative THEN 2 ELSE 3
        target == IF relative
                    THEN Last.pc + 2 + Signed8(Last.instructions[Last.pc + 2])
                    ELSE from_le_bytes(Last.instructions[Last.pc + 2],
                                       Last.instructions[Last.pc + 3])
    IN  /\ Last.outcome = "return"
        /\ RegistersKept
        /\ pc = IF taken THEN target ELSE Last.pc + length

\* C9: decode at an opcode with a non-zero entry in INST_KIND_TABLE, with its
\* immediate bytes present, returns an instruction
C9_AssignedOpcodesDecode ==
  LastWas("decode")
    /\ INST_KIND_TABLE[LastOpcode + 1] # 0
    /\ Last.pc + 2 < Len(Last.instructions)
  => Last.outcome = "return" /\ Last.ret # None

\* number of immediate bytes of an instruction kind
ImmBytes(kind) ==
  LET K == InstrKind
  IN  IF kind \in {K.LdWRegImm, K.LdMemImmReg, K.JPImm, K.JPCond} THEN 2
      ELSE IF kind \in {K.LdRegImm, K.AddRegImm, K.AdcRegImm, K.SubImm, K.SbcImm,
                        K.AndImm, K.OrImm, K.CpImm, K.JRelImm, K.JRelCond} THEN 1
      ELSE 0

\* C10: when decode returns an instruction the program counter has advanced by
\* 1 plus the number of immediate bytes, and decode at op, lo, hi for the wide
\* immediate loads 0x01, 0x11, 0x21, 0x31 returns the value lo + 256 * hi with
\* the program counter advanced by 3
C10_DecodeLengthAndImm16 ==
  /\ LastWas("decode") /\ Last.outcome = "return" /\ Last.ret # None =>
       pc = Last.pc + 1 + ImmBytes(INST_KIND_TABLE[LastOpcode + 1])
  /\ LastWas("decode") /\ LastOpcode \in {1, 17, 33, 49}
       /\ Last.pc + 2 < Len(Last.instructions) =>
       /\ Last.outcome = "return"
       /\ Last.ret # None
       /\ Last.ret.val.kind = "LdWRegImm"
       /\ Last.ret.val.src = Last.instructions[Last.pc + 2]
                               + 256 * Last.instructions[Last.pc + 3]
       /\ pc = Last.pc + 3

\* C11: decode at the escape byte 0xCB followed by a byte x returns the
\* extended instruction whose kind is PREFIX_TABLE[x] and whose operand is the
\* one of x mod 8 in the order B, C, D, E, H, L, (HL), A, with the program
\* counter advanced past both bytes
C11_DecodeEscape ==
  LastWas("decode") /\ LastOpcode = 203 /\ Last.pc + 1 < Len(Last.instructions) =>
    LET x == Last.instructions[Last.pc + 2]
    IN  /\ Last.outcome = "return"
        /\ Last.ret # None
        /\ InstrKind[Last.ret.val.kind] = PREFIX_TABLE[x + 1]
        /\ Last.ret.val.reg = LoadOperand[(x % 8) + 1]
        /\ pc = Last.pc + 2

\* the register file after call i of the trace
RegistersAfter(i) == IF i = Len(trace) THEN registers ELSE trace[i + 1].registers

\* C12: after write_widereg(r, v) returns, read_widereg(r) is v, the register
\* r holds v mod 256 and the register after it v div 256 (for BC, DE and HL:
\* the first-named and the second-named register), every other slot and the
\* program counter are unchanged; and read_widereg(r) is always the register
\* r plus 256 times the register after it
C12_WideRegisterRoundTrip ==
  \A i \in 1..Len(trace) :
    /\ trace[i].op = "write_widereg" /\ trace[i].outcome = "return" =>
         LET r == trace[i].reg
             v == trace[i].value
         IN  /\ read_widereg(RegistersAfter(i), r) = v
             /\ i < Len(trace) /\ trace[i + 1].op = "read_widereg"
                  /\ trace[i + 1].reg = r /\ trace[i + 1].outcome = "return"
                  => trace[i + 1].ret = v
             /\ r \in {Reg_B, Reg_D, Reg_H} =>
                  /\ read_reg(RegistersAfter(i), r) = v % 256
                  /\ read_reg(RegistersAfter(i), r + 1) = v \div 256
             /\ \A slot \in 0..9 :
                  slot \notin {r - 1, r} =>
                    RegistersAfter(i)[slot] = trace[i].registers[slot]
             /\ pc = 0
    /\ trace[i].op = "read_widereg" /\ trace[i].outcome = "return" =>
         /\ trace[i].ret = read_reg(trace[i].registers, trace[i].reg)
                             + 256 * trace[i].registers[trace[i].reg]
         /\ RegistersAfter(i) = trace[i].registers

\* 0x012A written to HL of a register file with a different byte in every
\* slot and read back: H = 0x2A, L = 0x01
C12_Witness ==
  /\ Len(trace) = 2
  /\ trace[1].op = "write_widereg"
  /\ trace[1].reg = Reg_H
  /\ trace[1].value = 298
  /\ trace[1].registers # NewRegisters
  /\ trace[2].op = "read_widereg"
  /\ trace[2].reg = Reg_H
  /\ trace[2].ret = 298
  /\ read_reg(registers, Reg_H) = 42
  /\ read_reg(registers, Reg_L) = 1
  /\ read_reg(registers, Reg_E) = read_reg(trace[1].registers, Reg_E)

\* C13: read_widereg and write_widereg panic, with the registers untouched,
\* exactly when the register is not one of B, D, H, A
C13_WideRegisterFaults ==
  \A i \in 1..Len(trace) :
    trace[i].op \in {"read_widereg", "write_widereg"} /\ trace[i].reg \in 0..9 =>
      /\ (trace[i].outcome = "panic")
           <=> (trace[i].reg \notin {Reg_B, Reg_D, Reg_H, Reg_A})
      /\ trace[i].outcome = "panic" => RegistersAfter(i) = trace[i].registers

\* C14: a step that ends in a panic leaves the 8-bit registers, SP and the
\* program counter as they were before the step
C14_FaultKeepsState ==
  trace # <<>> /\ Last.op = "execute" /\ Last.outcome = "panic" =>
    /\ RegistersKept
    /\ pc = Last.pc

\* C15: a step on JRelImm, or on a JRelCond whose condition holds, with offset
\* byte o sets the program counter to the address after the instruction plus o
\* read as a signed byte, and panics instead when that sum is negative
C15_RelativeJump ==
  LastWas("execute")
    /\ Last.pc + 1 < Len(Last.instructions)
    /\ \/ INST_KIND_TABLE[LastOpcode + 1] = InstrKind.JRelImm
       \/ /\ INST_KIND_TABLE[LastOpcode + 1] = InstrKind.JRelCond
          /\ BitAnd(read_reg(Last.registers, Reg_F), SRC_TABLE[LastOpcode + 1])
               = SRC_TABLE[LastOpcode + 1]
  =>
    LET target == Last.pc + 2 + Signed8(Last.instructions[Last.pc + 2])
    IN  IF target < 0
          THEN Last.outcome = "panic"
          ELSE Last.outcome = "return" /\ pc = target

\* the flag is set in the flag byte
IsSet(flags, flag) == BitAnd(flags, flag) # 0

\* C16: after alu_add H is set iff (a mod 16) + (b mod 16) >= 16 and N is
\* clear; after alu_wideadd H is set iff (a mod 4096) + (b mod 4096) >= 4096
C16_AddHalfCarry ==
  trace # <<>> =>
    /\ Last.op = "alu_add" =>
         /\ IsSet(read_reg(registers, Reg_F), FLAG_H)
              <=> ((Last.a % 16) + (Last.b % 16) >= 16)
         /\ ~IsSet(read_reg(registers, Reg_F), FLAG_N)
    /\ Last.op = "alu_wideadd" =>
         IsSet(read_reg(registers, Reg_F), FLAG_H)
           <=> ((Last.a % 4096) + (Last.b % 4096) >= 4096)

\* C17: alu_sub returns (a - b) mod 256 with N set, Z set iff the result is 0,
\* C set iff a >= b and H set iff a mod 16 >= b mod 16
C17_SubFlags ==
  trace # <<>> /\ Last.op = "alu_sub" =>
    /\ Last.res = (Last.a - Last.b) % 256
    /\ IsSet(read_reg(registers, Reg_F), FLAG_N)
    /\ IsSet(read_reg(registers, Reg_F), FLAG_Z) <=> (Last.res = 0)
    /\ IsSet(read_reg(registers, Reg_F), FLAG_C) <=> (Last.a >= Last.b)
    /\ IsSet(read_reg(registers, Reg_F), FLAG_H) <=> (Last.a % 16 >= Last.b % 16)

\* the carry flag of a flag byte as a number
CarryIn(flags) == IF IsSet(flags, FLAG_C) THEN 1 ELSE 0

\* C18: alu_sbc returns (a - b - c) mod 256, c being the C flag before the
\* call, with Z set iff the returned result is 0 and C set iff the whole
\* subtraction, the extra 1 included, did not borrow
C18_SbcResult ==
  trace # <<>> /\ Last.op = "alu_sbc" =>
    /\ Last.res = (Last.a - Last.b - CarryIn(Last.flags)) % 256
    /\ IsSet(read_reg(registers, Reg_F), FLAG_Z) <=> (Last.res = 0)
    /\ IsSet(read_reg(registers, Reg_F), FLAG_C)
         <=> (Last.a >= Last.b + CarryIn(Last.flags))

\* C19: alu_adc returns (a + b + c) mod 256, c being the C flag before the
\* call, with C set iff a + b + c >= 256, Z set iff the returned result is 0,
\* H set iff (a mod 16) + (b mod 16) + c >= 16, and N clear
C19_AdcFlags ==
  trace # <<>> /\ Last.op = "alu_adc" =>
    /\ Last.res = (Last.a + Last.b + CarryIn(Last.flags)) % 256
    /\ IsSet(read_reg(registers, Reg_F), FLAG_C)
         <=> (Last.a + Last.b + CarryIn(Last.flags) >= 256)
    /\ IsSet(read_reg(registers, Reg_F), FLAG_Z) <=> (Last.res = 0)
    /\ IsSet(read_reg(registers, Reg_F), FLAG_H)
         <=> ((Last.a % 16) + (Last.b % 16) + CarryIn(Last.flags) >= 16)
    /\ ~IsSet(read_reg(registers, Reg_F), FLAG_N)

\* the flag byte after call i of the trace
FlagsAfter(i) ==
  IF i = Len(trace) THEN read_reg(registers, Reg_F) ELSE trace[i + 1].flags

\* C20: alu_rl returns ((2 * a) mod 256) + c and leaves C equal to bit 7 of a;
\* alu_rr returns (a div 2) + 128 * c and leaves C equal to bit 0 of a, c being
\* the C flag before the call
C20_RotateThroughCarry ==
  \A i \in 1..Len(trace) :
    /\ trace[i].op = "alu_rl" =>
         /\ trace[i].res = ((2 * trace[i].a) % 256) + CarryIn(trace[i].flags)
         /\ IsSet(FlagsAfter(i), FLAG_C) <=> (trace[i].a \div 128 = 1)
    /\ trace[i].op = "alu_rr" =>
         /\ trace[i].res = (trace[i].a \div 2) + 128 * CarryIn(trace[i].flags)
         /\ IsSet(FlagsAfter(i), FLAG_C) <=> (trace[i].a % 2 = 1)

\* C21: alu_sla returns (2 * a) mod 256 with C equal to bit 7 of a; alu_sra
\* returns a div 2 with bit 7 copied from a and C equal to bit 0 of a; alu_srl
\* returns a div 2 with C equal to bit 0 of a
C21_ShiftCarry ==
  \A i \in 1..Len(trace) :
    /\ trace[i].op = "alu_sla" =>
         /\ trace[i].res = (2 * trace[i].a) % 256
         /\ IsSet(FlagsAfter(i), FLAG_C) <=> (trace[i].a \div 128 = 1)
    /\ trace[i].op = "alu_sra" =>
         /\ trace[i].res = (trace[i].a \div 2) + 128 * (trace[i].a \div 128)
         /\ IsSet(FlagsAfter(i), FLAG_C) <=> (trace[i].a % 2 = 1)
    /\ trace[i].op = "alu_srl" =>
         /\ trace[i].res = trace[i].a \div 2
         /\ IsSet(FlagsAfter(i), FLAG_C) <=> (trace[i].a % 2 = 1)

\* C22: after alu_bit on a byte a and a bit number 0..7, Z is set iff that bit
\* of a is 0, whatever Z was before, H is set, N and C are as before the call,
\* and the tested byte is as before
C22_BitTest ==
  \A i \in 1..Len(trace) :
    trace[i].op = "alu_bit" /\ trace[i].b \in 0..7 =>
      /\ trace[i].outcome = "return"
      /\ IsSet(FlagsAfter(i), FLAG_Z)
           <=> ((trace[i].a \div (2 ^ trace[i].b)) % 2 = 0)
      /\ IsSet(FlagsAfter(i), FLAG_H)
      /\ IsSet(FlagsAfter(i), FLAG_N) <=> IsSet(trace[i].flags, FLAG_N)
      /\ IsSet(FlagsAfter(i), FLAG_C) <=> IsSet(trace[i].flags, FLAG_C)
      /\ acc = trace[i].a

\* only execute was called since Cpu::new()
OnlyExecuteSteps ==
  /\ writes = 0
  /\ \A i \in 1..Len(trace) : trace[i].op = "execute"

\* C23: in every state reached from Cpu::new() by execute steps alone, bits
\* 3..0 of F are zero
C23_FlagLowBitsZero ==
  OnlyExecuteSteps => BitAnd(read_reg(registers, Reg_F), 15) = 0

\* the state after one execute step on the increment of A from Cpu::new()
C23_Witness ==
  /\ OnlyExecuteSteps
  /\ LastWas("execute")
  /\ LastOpcode = 60
  /\ Last.registers = NewRegisters
  /\ read_reg(registers, Reg_F) = 0

\* the opcodes of the 8-bit register increments and decrements and of the
\* 16-bit register increments
IncRegOpcodes == {4, 12, 20, 28, 36, 44, 60}
DecRegOpcodes == {5, 13, 21, 29, 37, 45, 61}
IncWRegOpcodes == {3, 19, 35, 51}

\* C24: a step on the increment or decrement of an 8-bit register, or on the
\* increment of a 16-bit register, returns with the C flag as it was before
\* the step
C24_IncDecKeepsCarry ==
  LastWas("execute")
    /\ LastOpcode \in IncRegOpcodes \cup DecRegOpcodes \cup IncWRegOpcodes
  =>
    /\ Last.outcome = "return"
    /\ Last.ret # None
    /\ IsSet(read_reg(registers, Reg_F), FLAG_C)
         <=> IsSet(read_reg(Last.registers, Reg_F), FLAG_C)

\* C25: alu_rlc leaves C equal to bit 7 of a and alu_rrc leaves C equal to bit
\* 0 of a; both leave Z set iff the result is 0 and N and H clear
C25_CircularRotateFlags ==
  \A i \in 1..Len(trace) :
    /\ trace[i].op = "alu_rlc" =>
         IsSet(FlagsAfter(i), FLAG_C) <=> (trace[i].a \div 128 = 1)
    /\ trace[i].op = "alu_rrc" =>
         IsSet(FlagsAfter(i), FLAG_C) <=> (trace[i].a % 2 = 1)
    /\ trace[i].op \in {"alu_rlc", "alu_rrc"} =>
         /\ IsSet(FlagsAfter(i), FLAG_Z) <=> (trace[i].res = 0)
         /\ ~IsSet(FlagsAfter(i), FLAG_N)
         /\ ~IsSet(FlagsAfter(i), FLAG_H)

====
